---- MODULE Spec2Model ----
(***************************************************************************)
(* Model of utils/process_circleci_workflow_test_reports.py: the name      *)
(* normalizer, the model extractor, the per-job summary parser with its    *)
(* failure collection, the failure aggregator and the markdown renderer.   *)
(*                                                                         *)
(* A Python str is a sequence of one-character strings; None is the        *)
(* sentinel NoneValue, which is no str (its element is not one character). *)
(* A Python dict is a sequence of entries in insertion order.  A text is   *)
(* given as its sequence of lines (what str.splitlines() returns).         *)
(***************************************************************************)
EXTENDS Integers, Sequences, FiniteSets, TLC

VARIABLES
    \* _normalize_test_name applied once and twice
    norm_pc, test_name, normalized, renormalized,
    \* _extract_model_name
    ext_pc, test_node_id, model_name,
    \* _aggregate_failures
    agg_pc, aggregate_input, agg_pos, by_test, by_model,
    \* _create_markdown_report
    render_pc, failures_by_test, failures_by_model, markdown_report,
    \* __main__: the body of the loop over jobs, for one job
    pc, job_test_summaries, job_failure_lines, node_pos, summary,
    workflow_summary, failure_entries

norm_vars == <<norm_pc, test_name, normalized, renormalized>>
ext_vars == <<ext_pc, test_node_id, model_name>>
agg_vars == <<agg_pc, aggregate_input, agg_pos, by_test, by_model>>
render_vars == <<render_pc, failures_by_test, failures_by_model, markdown_report>>
job_vars == <<pc, job_test_summaries, job_failure_lines, node_pos, summary,
              workflow_summary, failure_entries>>
vars == <<norm_vars, ext_vars, agg_vars, render_vars, job_vars>>

NoneValue == <<"None">>

(***************************************************************************)
(* str helpers                                                             *)
(***************************************************************************)
\* All sequences over S of length at most n.
SeqsUpTo(S, n) == UNION {[1..k -> S] : k \in 0..n}

\* s[i:] and s[:i] with Python's 0-based offsets.
Drop(s, k) == SubSeq(s, k + 1, Len(s))
Take(s, k) == SubSeq(s, 1, k)

\* str.startswith(p)
StartsWith(s, p) == Len(s) >= Len(p) /\ SubSeq(s, 1, Len(p)) = p

\* Whether p occurs in s at 1-based position i.
OccursAt(s, p, i) == i >= 1 /\ i + Len(p) - 1 <= Len(s) /\ SubSeq(s, i, i + Len(p) - 1) = p

\* str.find(p) + 1: the least position where p occurs, 0 if none.
Find(s, p) ==
    LET hits == {i \in 1..(Len(s) + 1) : OccursAt(s, p, i)}
    IN IF hits = {} THEN 0 ELSE CHOOSE i \in hits : \A j \in hits : i <= j

\* p in s
Contains(s, p) == Find(s, p) # 0

\* str.partition(sep): <<before, sep, after>>, or <<s, "", "">> without sep.
Partition(s, sep) ==
    LET i == Find(s, sep)
    IN IF i = 0 THEN <<s, <<>>, <<>>>>
       ELSE <<Take(s, i - 1), sep, Drop(s, i - 1 + Len(sep))>>

\* str.split(sep, 1)[0]
SplitFirst(s, sep) == Partition(s, sep)[1]

\* str.split(sep): the pieces between the occurrences of sep, left to right.
RECURSIVE Split(_, _)
Split(s, sep) ==
    LET i == Find(s, sep)
    IN IF i = 0 THEN <<s>>
       ELSE <<Take(s, i - 1)>> \o Split(Drop(s, i - 1 + Len(sep)), sep)

\* sep.join(parts)
RECURSIVE Join(_, _)
Join(parts, sep) ==
    IF Len(parts) = 0 THEN <<>>
    ELSE IF Len(parts) = 1 THEN parts[1]
    ELSE parts[1] \o sep \o Join(Tail(parts), sep)

Digits == {"0", "1", "2", "3", "4", "5", "6", "7", "8", "9"}

(***************************************************************************)
(* _normalize_test_name                                                    *)
(***************************************************************************)
\* Where the match of _\d{2,}.*$ that starts at i ends (exclusive), 0 if there is
\* none: "." matches no line feed, "$" matches at the end and before a final
\* line feed.
MatchEnd(seg, i) ==
    LET n == Len(seg)
        clear(e) == \A k \in (i + 3)..(e - 1) : seg[k] # "\n"
    IN IF ~(i + 2 <= n /\ seg[i] = "_" /\ seg[i + 1] \in Digits /\ seg[i + 2] \in Digits)
       THEN 0
       ELSE IF clear(n + 1) THEN n + 1
       ELSE IF seg[n] = "\n" /\ n >= i + 3 /\ clear(n) THEN n
       ELSE 0

\* re.sub(r"_\d{2,}.*$", "", seg): the leftmost match is removed; what is left
\* after it is at most a line feed, which holds no further match.
SubNumericSuffix(seg) ==
    LET starts == {i \in 1..Len(seg) : MatchEnd(seg, i) # 0}
    IN IF starts = {} THEN seg
       ELSE LET i == CHOOSE x \in starts : \A y \in starts : x <= y
            IN Take(seg, i - 1) \o Drop(seg, MatchEnd(seg, i) - 1)

\* test_name.split("[", 1)[0]
BaseName(name) == SplitFirst(name, <<"[">>)

normalize_test_name(name) ==
    LET parts == Split(BaseName(name), <<":", ":">>)
        last == Len(parts)
    IN Join([parts EXCEPT ![last] = SubNumericSuffix(parts[last])], <<":", ":">>)

(***************************************************************************)
(* _extract_model_name                                                     *)
(***************************************************************************)
TestsModelsPrefix == <<"t", "e", "s", "t", "s", "/", "m", "o", "d", "e", "l", "s", "/">>

\* A variant that takes parts[1], the segment before the model's.
extract_model_name_parts1(node_id) ==
    LET file_path == SplitFirst(node_id, <<":", ":">>)
        parts == Split(file_path, <<"/">>)
    IN IF StartsWith(file_path, TestsModelsPrefix) /\ Len(parts) >= 3
       THEN parts[2]
       ELSE NoneValue

extract_model_name(node_id) ==
    LET file_path == SplitFirst(node_id, <<":", ":">>)
        parts == Split(file_path, <<"/">>)
    IN IF StartsWith(file_path, TestsModelsPrefix) /\ Len(parts) >= 3
       THEN parts[3]
       ELSE NoneValue

(***************************************************************************)
(* More str helpers: whitespace, case, ordering, decimal numbers            *)
(***************************************************************************)
Whitespace == {" ", "\t"}

\* str.strip()
RECURSIVE LStrip(_)
LStrip(s) == IF Len(s) > 0 /\ s[1] \in Whitespace THEN LStrip(Tail(s)) ELSE s

RECURSIVE RStrip(_)
RStrip(s) ==
    IF Len(s) > 0 /\ s[Len(s)] \in Whitespace THEN RStrip(Take(s, Len(s) - 1)) ELSE s

Strip(s) == RStrip(LStrip(s))

\* str.split(): the words between runs of whitespace.
RECURSIVE SplitWords(_)
SplitWords(s) ==
    LET t == LStrip(s)
        gaps == {i \in 1..Len(t) : t[i] \in Whitespace}
        stop == IF gaps = {} THEN Len(t) + 1
                ELSE CHOOSE i \in gaps : \A j \in gaps : i <= j
    IN IF Len(t) = 0 THEN <<>>
       ELSE <<Take(t, stop - 1)>> \o SplitWords(Drop(t, stop - 1))

UpperCase ==
    <<"A", "B", "C", "D", "E", "F", "G", "H", "I", "J", "K", "L", "M",
      "N", "O", "P", "Q", "R", "S", "T", "U", "V", "W", "X", "Y", "Z">>
LowerCase ==
    <<"a", "b", "c", "d", "e", "f", "g", "h", "i", "j", "k", "l", "m",
      "n", "o", "p", "q", "r", "s", "t", "u", "v", "w", "x", "y", "z">>

\* str.lower()
Lower(s) ==
    [i \in 1..Len(s) |->
        IF \E k \in 1..26 : UpperCase[k] = s[i]
        THEN LowerCase[CHOOSE k \in 1..26 : UpperCase[k] = s[i]]
        ELSE s[i]]

\* The printable ASCII characters in code point order, from the space (32); the
\* quotes (34, 39, 96) and the backslash (92) are left as names.
Ascii ==
    <<" ", "!", "quote", "#", "$", "%", "&", "apostrophe", "(", ")", "*", "+", ",", "-", ".", "/",
      "0", "1", "2", "3", "4", "5", "6", "7", "8", "9", ":", ";", "<", "=", ">", "?",
      "@", "A", "B", "C", "D", "E", "F", "G", "H", "I", "J", "K", "L", "M", "N", "O",
      "P", "Q", "R", "S", "T", "U", "V", "W", "X", "Y", "Z", "[", "backslash", "]", "^", "_",
      "backtick", "a", "b", "c", "d", "e", "f", "g", "h", "i", "j", "k", "l", "m", "n", "o",
      "p", "q", "r", "s", "t", "u", "v", "w", "x", "y", "z", "{", "|", "}", "~">>

\* ord(c); the tab (9) is below every printable character.
Ord(c) == IF c = "\t" THEN 9 ELSE 31 + CHOOSE k \in 1..Len(Ascii) : Ascii[k] = c

\* a < b for str: by code point, a proper prefix first.
RECURSIVE StrLess(_, _)
StrLess(a, b) ==
    IF Len(b) = 0 THEN FALSE
    ELSE IF Len(a) = 0 THEN TRUE
    ELSE IF a[1] = b[1] THEN StrLess(Tail(a), Tail(b))
    ELSE Ord(a[1]) < Ord(b[1])

\* str(n) for n >= 0
RECURSIVE Decimal(_)
Decimal(n) ==
    LET digit == <<"0", "1", "2", "3", "4", "5", "6", "7", "8", "9">>
    IN IF n < 10 THEN <<digit[n + 1]>> ELSE Decimal(n \div 10) \o <<digit[(n % 10) + 1]>>

(***************************************************************************)
(* _aggregate_failures                                                     *)
(* A Counter is a sequence of [msg, count]; a grouping a sequence of       *)
(* [key, count, errors], both in insertion order.                          *)
(***************************************************************************)
HasKey(d, k) == \E i \in DOMAIN d : d[i].key = k

\* A variant that writes errors[error] = 1 instead of adding to it.
CounterAdd_assign(errors, error) ==
    IF \E i \in DOMAIN errors : errors[i].msg = error
    THEN [i \in DOMAIN errors |->
            IF errors[i].msg = error THEN [errors[i] EXCEPT !.count = 1] ELSE errors[i]]
    ELSE Append(errors, [msg |-> error, count |-> 1])

\* errors[error] += 1
CounterAdd(errors, error) ==
    IF \E i \in DOMAIN errors : errors[i].msg = error
    THEN [i \in DOMAIN errors |->
            IF errors[i].msg = error THEN [errors[i] EXCEPT !.count = @ + 1] ELSE errors[i]]
    ELSE Append(errors, [msg |-> error, count |-> 1])

\* if key not in d: d[key] = {"count": 0, "errors": Counter()}
\* d[key]["count"] += 1; d[key]["errors"][error] += 1
Tally(d, k, error) ==
    LET d1 == IF HasKey(d, k) THEN d
              ELSE Append(d, [key |-> k, count |-> 0, errors |-> <<>>])
    IN [i \in DOMAIN d1 |->
            IF d1[i].key = k
            THEN [d1[i] EXCEPT !.count = @ + 1, !.errors = CounterAdd(@, error)]
            ELSE d1[i]]

\* if model_name: a None and an empty str are both false
Truthy(v) == v # NoneValue /\ v # <<>>

\* The body of the loop over failure_entries, for one entry.
AggregateEntry(entry, bt, bm) ==
    [by_test |-> Tally(bt, normalize_test_name(entry.test_name), entry.error),
     by_model |-> IF Truthy(entry.model_name)
                  THEN Tally(bm, entry.model_name, entry.error)
                  ELSE bm]

\* sorted(items, key=count, reverse=True): stable, so ties keep their order.
RECURSIVE InsertByCount(_, _)
InsertByCount(sorted, x) ==
    IF Len(sorted) = 0 THEN <<x>>
    ELSE IF sorted[1].count >= x.count
         THEN <<sorted[1]>> \o InsertByCount(Tail(sorted), x)
         ELSE <<x>> \o sorted

RECURSIVE SortByCountDesc(_)
SortByCountDesc(s) ==
    IF Len(s) = 0 THEN <<>>
    ELSE InsertByCount(SortByCountDesc(Take(s, Len(s) - 1)), s[Len(s)])

\* Counter.most_common()
MostCommon(errors) == SortByCountDesc(errors)

\* info["errors"] = dict(info["errors"].most_common()), for every group
RankErrors(d) == [i \in DOMAIN d |-> [d[i] EXCEPT !.errors = MostCommon(@)]]

(***************************************************************************)
(* _create_markdown_report                                                 *)
(***************************************************************************)
\* # Failure summary\n
HeadingLine ==
    <<"#", " ", "F", "a", "i", "l", "u", "r", "e", " ", "s", "u", "m", "m",
      "a", "r", "y", "\n">>
\* ## By test\n
ByTestHeading ==
    <<"#", "#", " ", "B", "y", " ", "t", "e", "s", "t", "\n">>
\* | Test | Failures | Error(s) |
ByTestColumns ==
    <<"|", " ", "T", "e", "s", "t", " ", "|", " ", "F", "a", "i", "l", "u",
      "r", "e", "s", " ", "|", " ", "E", "r", "r", "o", "r", "(", "s", ")",
      " ", "|">>
\* | --- | --- | --- |
TableRule ==
    <<"|", " ", "-", "-", "-", " ", "|", " ", "-", "-", "-", " ", "|", " ",
      "-", "-", "-", " ", "|">>
\* ## By model\n
ByModelHeading ==
    <<"#", "#", " ", "B", "y", " ", "m", "o", "d", "e", "l", "\n">>
\* | Model | Failures | Error(s) |
ByModelColumns ==
    <<"|", " ", "M", "o", "d", "e", "l", " ", "|", " ", "F", "a", "i", "l",
      "u", "r", "e", "s", " ", "|", " ", "E", "r", "r", "o", "r", "(", "s",
      ")", " ", "|">>
\* No failures were reported.\n
NoFailuresLine ==
    <<"N", "o", " ", "f", "a", "i", "l", "u", "r", "e", "s", " ", "w", "e",
      "r", "e", " ", "r", "e", "p", "o", "r", "t", "e", "d", ".", "\n">>

\* The multiplication sign U+00D7 of f"{count}x {msg}", written as one character.
TimesSign == "x"

\* "; ".join(f"{count}x {msg}" for msg, count in info["errors"].items())
ErrorsCell(errors) ==
    Join([i \in DOMAIN errors |-> Decimal(errors[i].count) \o <<TimesSign, " ">> \o errors[i].msg],
         <<";", " ">>)

\* f"| {key} | {info[count]} | {errors} |"
TableRow(g) ==
    <<"|", " ">> \o g.key \o <<" ", "|", " ">> \o Decimal(g.count)
        \o <<" ", "|", " ">> \o ErrorsCell(g.errors) \o <<" ", "|">>

TableRows(d) ==
    LET ranked == SortByCountDesc(d)
    IN [i \in DOMAIN ranked |-> TableRow(ranked[i])]

\* The list lines; the report is "\n".join(lines).
ReportLines(fbt, fbm) ==
    <<HeadingLine>> \o
    (IF fbt # <<>>
     THEN <<ByTestHeading, ByTestColumns, TableRule>> \o TableRows(fbt) \o << <<>> >>
          \o <<ByModelHeading, ByModelColumns, TableRule>> \o TableRows(fbm)
     ELSE <<NoFailuresLine>>)

create_markdown_report(fbt, fbm) == Join(ReportLines(fbt, fbm), <<"\n">>)

(***************************************************************************)
(* __main__: the summary of one job (lines 141-157)                        *)
(* summary is a sequence of [test, status] in insertion order.             *)
(***************************************************************************)
\* PASSED 
PassedPrefix ==
    <<"P", "A", "S", "S", "E", "D", " ">>
\* FAILED 
FailedPrefix ==
    <<"F", "A", "I", "L", "E", "D", " ">>
StatusPassed == <<"p", "a", "s", "s", "e", "d">>
StatusFailed == <<"f", "a", "i", "l", "e", "d">>

\* A variant that keeps the first status of a test (summary.setdefault).
SetStatus_setdefault(sm, test, status) ==
    IF \E i \in DOMAIN sm : sm[i].test = test
    THEN sm
    ELSE Append(sm, [test |-> test, status |-> status])

\* summary[test] = status: a key already there keeps its place.
SetStatus(sm, test, status) ==
    IF \E i \in DOMAIN sm : sm[i].test = test
    THEN [i \in DOMAIN sm |-> IF sm[i].test = test THEN [sm[i] EXCEPT !.status = status] ELSE sm[i]]
    ELSE Append(sm, [test |-> test, status |-> status])

\* The body of the loop over a node's summary lines, for one line.  ok is FALSE
\* when line[len("FAILED "):].split()[0] raises IndexError: split() returned [].
ParseSummaryLine(sm, line) ==
    IF StartsWith(line, PassedPrefix)
    THEN [ok |-> TRUE, summary |-> SetStatus(sm, Drop(line, Len(PassedPrefix)), StatusPassed)]
    ELSE IF StartsWith(line, FailedPrefix)
    THEN LET words == SplitWords(Drop(line, Len(FailedPrefix)))
         IN IF Len(words) = 0
            THEN [ok |-> FALSE, summary |-> sm]
            ELSE [ok |-> TRUE, summary |-> SetStatus(sm, words[1], StatusFailed)]
    ELSE [ok |-> TRUE, summary |-> sm]

RECURSIVE ParseSummaryLines(_, _)
ParseSummaryLines(sm, lines) ==
    IF Len(lines) = 0 THEN [ok |-> TRUE, summary |-> sm]
    ELSE LET r == ParseSummaryLine(sm, lines[1])
         IN IF r.ok THEN ParseSummaryLines(r.summary, Tail(lines)) ELSE r

\* A variant that sorts by the test alone (key=lambda x: x[0]).
SummaryKeyLess_by_test(x, y) == StrLess(x.test, y.test)

\* key=lambda x: (x[1], x[0]): by status, then by test
SummaryKeyLess(x, y) ==
    \/ StrLess(x.status, y.status)
    \/ x.status = y.status /\ StrLess(x.test, y.test)

RECURSIVE InsertByKey(_, _)
InsertByKey(sorted, x) ==
    IF Len(sorted) = 0 THEN <<x>>
    ELSE IF SummaryKeyLess(x, sorted[1]) THEN <<x>> \o sorted
    ELSE <<sorted[1]>> \o InsertByKey(Tail(sorted), x)

\* dict(sorted(summary.items(), key=lambda x: (x[1], x[0])))
RECURSIVE SortedSummary(_)
SortedSummary(sm) ==
    IF Len(sm) = 0 THEN <<>>
    ELSE InsertByKey(SortedSummary(Take(sm, Len(sm) - 1)), sm[Len(sm)])

(***************************************************************************)
(* __main__: the failure details of one job (lines 160-182)                *)
(***************************************************************************)
\*  - Failed: (subprocess)
SubprocessMark ==
    <<" ", "-", " ", "F", "a", "i", "l", "e", "d", ":", " ", "(", "s", "u",
      "b", "p", "r", "o", "c", "e", "s", "s", ")">>
\* short test summary
ShortSummaryBanner ==
    <<"s", "h", "o", "r", "t", " ", "t", "e", "s", "t", " ", "s", "u", "m",
      "m", "a", "r", "y">>
DashSeparator == <<" ", "-", " ">>

JobName == "tests_torch"

\* The test on a stripped line of failures_line.txt.
KeepsDetailLine(line) ==
    /\ Len(line) > 0
    /\ ~(StartsWith(line, <<"=">>) \/ StartsWith(line, <<"_">>))
    /\ Contains(line, <<":", " ">>)
    /\ ~StartsWith(Lower(line), ShortSummaryBanner)

\* failure_lines_list of a node's failures_line.txt
RECURSIVE FailureLinesList(_)
FailureLinesList(lines) ==
    IF Len(lines) = 0 THEN <<>>
    ELSE LET line == Strip(lines[1])
         IN (IF KeepsDetailLine(line) THEN <<line>> ELSE <<>>)
                \o FailureLinesList(Tail(lines))

\* The summary lines that give a failure entry.
IsReportedFailure(line) ==
    StartsWith(line, FailedPrefix) /\ ~Contains(line, SubprocessMark)

\* failure_lines_list[failure_idx] if failure_idx < len(failure_lines_list)
\* else short_error (failure_idx counts from 0)
FullError(fll, failure_idx, short_error) ==
    IF failure_idx < Len(fll) THEN fll[failure_idx + 1] ELSE short_error

FailureEntry(line, fll, failure_idx) ==
    LET failure_line == Strip(Drop(line, Len(FailedPrefix)))
        parts == Partition(failure_line, DashSeparator)
    IN [job_name |-> JobName,
        test_name |-> Strip(parts[1]),
        error |-> FullError(fll, failure_idx, parts[3]),
        model_name |-> extract_model_name(Strip(parts[1]))]

\* The loop over a node's summary lines, from failure_idx on.
RECURSIVE CollectLines(_, _, _)
CollectLines(lines, fll, failure_idx) ==
    IF Len(lines) = 0 THEN <<>>
    ELSE IF IsReportedFailure(lines[1])
    THEN <<FailureEntry(lines[1], fll, failure_idx)>>
            \o CollectLines(Tail(lines), fll, failure_idx + 1)
    ELSE CollectLines(Tail(lines), fll, failure_idx)

\* The entries of one node: failure_idx starts at 0, and the detail lines are the
\* node's own, none when the node has no failures_line.txt.
NodeFailureEntries(node, summary_text, failure_lines) ==
    LET fll == IF node \in DOMAIN failure_lines
               THEN FailureLinesList(failure_lines[node])
               ELSE <<>>
    IN CollectLines(summary_text, fll, 0)

(***************************************************************************)
(* A component that a specification leaves alone stays as it is here.      *)
(***************************************************************************)
NormIdle ==
    /\ norm_pc = "idle" /\ test_name = <<>>
    /\ normalized = NoneValue /\ renormalized = NoneValue

ExtIdle == ext_pc = "idle" /\ test_node_id = <<>> /\ model_name = NoneValue

AggIdle ==
    /\ agg_pc = "idle" /\ aggregate_input = <<>> /\ agg_pos = 0
    /\ by_test = <<>> /\ by_model = <<>>

RenderIdle ==
    /\ render_pc = "idle" /\ failures_by_test = <<>> /\ failures_by_model = <<>>
    /\ markdown_report = NoneValue

JobIdle ==
    /\ pc = "idle" /\ job_test_summaries = <<>> /\ job_failure_lines = <<>>
    /\ node_pos = 0 /\ summary = <<>> /\ workflow_summary = <<>>
    /\ failure_entries = <<>>

(***************************************************************************)
(* Specification of the name normalizer: any name, normalized, and the     *)
(* result normalized again.                                                *)
(***************************************************************************)
MaxNameLen == 7
NameChars == {"t", "_", "1", ":", "[", "\n"}

\* tests/x.py::test_foo[a-b]
NameParametrized ==
    <<"t", "e", "s", "t", "s", "/", "x", ".", "p", "y", ":", ":",
      "t", "e", "s", "t", "_", "f", "o", "o", "[", "a", "-", "b", "]">>
\* pkg::test_bar_042_extra
NameNumbered ==
    <<"p", "k", "g", ":", ":", "t", "e", "s", "t", "_", "b", "a", "r",
      "_", "0", "4", "2", "_", "e", "x", "t", "r", "a">>

NormInputs == SeqsUpTo(NameChars, MaxNameLen) \cup {NameParametrized, NameNumbered}

NormInit ==
    /\ norm_pc = "start"
    /\ test_name \in NormInputs
    /\ normalized = NoneValue
    /\ renormalized = NoneValue

NormalizeOnce ==
    /\ norm_pc = "start"
    /\ normalized' = normalize_test_name(test_name)
    /\ norm_pc' = "once"
    /\ UNCHANGED <<test_name, renormalized>>
    /\ UNCHANGED <<ext_vars, agg_vars, render_vars, job_vars>>

NormalizeAgain ==
    /\ norm_pc = "once"
    /\ renormalized' = normalize_test_name(normalized)
    /\ norm_pc' = "twice"
    /\ UNCHANGED <<test_name, normalized>>
    /\ UNCHANGED <<ext_vars, agg_vars, render_vars, job_vars>>

NormStart ==
    /\ NormInit
    /\ ExtIdle /\ AggIdle /\ RenderIdle /\ JobIdle

NormNext == NormalizeOnce \/ NormalizeAgain

SpecNormalize == NormStart /\ [][NormNext]_vars

(***************************************************************************)
(* Specification of the model extractor: any test identifier.              *)
(***************************************************************************)
MaxPathLen == 4
PathChars == {"b", "/", ":", "."}

\* tests/models/bart/test_modeling_bart.py::TestBart::test_x
IdBart ==
    <<"t", "e", "s", "t", "s", "/", "m", "o", "d", "e", "l", "s", "/", "b",
      "a", "r", "t", "/", "t", "e", "s", "t", "_", "m", "o", "d", "e", "l",
      "i", "n", "g", "_", "b", "a", "r", "t", ".", "p", "y", ":", ":", "T",
      "e", "s", "t", "B", "a", "r", "t", ":", ":", "t", "e", "s", "t", "_",
      "x">>
\* tests/other/test_x.py::test_y
IdOther ==
    <<"t", "e", "s", "t", "s", "/", "o", "t", "h", "e", "r", "/", "t", "e",
      "s", "t", "_", "x", ".", "p", "y", ":", ":", "t", "e", "s", "t", "_",
      "y">>
\* tests/models
PrefixNoSlash ==
    <<"t", "e", "s", "t", "s", "/", "m", "o", "d", "e", "l", "s">>
\* tests/other/
PrefixOther ==
    <<"t", "e", "s", "t", "s", "/", "o", "t", "h", "e", "r", "/">>
\* x/tests/models/
PrefixNested ==
    <<"x", "/", "t", "e", "s", "t", "s", "/", "m", "o", "d", "e", "l", "s",
      "/">>

PathPrefixes == {<<>>, TestsModelsPrefix, PrefixNoSlash, PrefixOther, PrefixNested}

ExtInputs ==
    {p \o b : p \in PathPrefixes, b \in SeqsUpTo(PathChars, MaxPathLen)}
        \cup {IdBart, IdOther}

ExtInit ==
    /\ ext_pc = "start"
    /\ test_node_id \in ExtInputs
    /\ model_name = NoneValue

ExtractModelName ==
    /\ ext_pc = "start"
    /\ model_name' = extract_model_name(test_node_id)
    /\ ext_pc' = "done"
    /\ UNCHANGED test_node_id
    /\ UNCHANGED <<norm_vars, agg_vars, render_vars, job_vars>>

ExtStart ==
    /\ ExtInit
    /\ NormIdle /\ AggIdle /\ RenderIdle /\ JobIdle

ExtNext == ExtractModelName

SpecExtract == ExtStart /\ [][ExtNext]_vars

(***************************************************************************)
(* Specification of the failure aggregator: any list of entries as         *)
(* __main__ builds them (model_name is _extract_model_name(test_name)),    *)
(* taken one entry at a time, then the final ranking of the tallies.       *)
(***************************************************************************)
MaxEntries == 4

\* tests/models/bart/t.py::a
NameBart ==
    <<"t", "e", "s", "t", "s", "/", "m", "o", "d", "e", "l", "s", "/", "b",
      "a", "r", "t", "/", "t", ".", "p", "y", ":", ":", "a">>
\* tests/models/bart/t.py::a[1]
NameBartParam ==
    <<"t", "e", "s", "t", "s", "/", "m", "o", "d", "e", "l", "s", "/", "b",
      "a", "r", "t", "/", "t", ".", "p", "y", ":", ":", "a", "[", "1", "]">>
\* tests/models//t.py::b_12
NameEmptyModel ==
    <<"t", "e", "s", "t", "s", "/", "m", "o", "d", "e", "l", "s", "/", "/",
      "t", ".", "p", "y", ":", ":", "b", "_", "1", "2">>
\* tests/x.py::c
NameNoModel ==
    <<"t", "e", "s", "t", "s", "/", "x", ".", "p", "y", ":", ":", "c">>

AggTestNames == {NameBart, NameBartParam, NameEmptyModel, NameNoModel}
AggErrors == {<<"E", "1">>, <<"E", "2">>}

\* failure_entries.append({...}) of __main__, for a test name and an error
MainEntry(name, error) ==
    [job_name |-> JobName, test_name |-> name, error |-> error,
     model_name |-> extract_model_name(name)]

AggEntries == {MainEntry(t, e) : t \in AggTestNames, e \in AggErrors}

AggInit ==
    /\ agg_pc = "loop"
    /\ aggregate_input \in SeqsUpTo(AggEntries, MaxEntries)
    /\ agg_pos = 0
    /\ by_test = <<>>
    /\ by_model = <<>>

AggregateNext ==
    /\ agg_pc = "loop"
    /\ agg_pos < Len(aggregate_input)
    /\ LET r == AggregateEntry(aggregate_input[agg_pos + 1], by_test, by_model)
       IN by_test' = r.by_test /\ by_model' = r.by_model
    /\ agg_pos' = agg_pos + 1
    /\ UNCHANGED <<agg_pc, aggregate_input>>
    /\ UNCHANGED <<norm_vars, ext_vars, render_vars, job_vars>>

AggregateReturn ==
    /\ agg_pc = "loop"
    /\ agg_pos = Len(aggregate_input)
    /\ by_test' = RankErrors(by_test)
    /\ by_model' = RankErrors(by_model)
    /\ agg_pc' = "done"
    /\ UNCHANGED <<aggregate_input, agg_pos>>
    /\ UNCHANGED <<norm_vars, ext_vars, render_vars, job_vars>>

AggStart ==
    /\ AggInit
    /\ NormIdle /\ ExtIdle /\ RenderIdle /\ JobIdle

AggNext == AggregateNext \/ AggregateReturn

SpecAggregate == AggStart /\ [][AggNext]_vars

(***************************************************************************)
(* Specification of the report renderer: any two groupings.                *)
(***************************************************************************)
MaxGroups == 2

TestKeys == {<<"t", ":", ":", "a">>, <<"t", ":", ":", "b">>}
ModelKeys == {<<"b", "a", "r", "t">>, <<"g", "p", "t", "2">>}
Tallies ==
    {<<[msg |-> <<"E", "1">>, count |-> 1]>>,
     <<[msg |-> <<"E", "2">>, count |-> 2]>>,
     <<[msg |-> <<"E", "2">>, count |-> 2], [msg |-> <<"E", "1">>, count |-> 1]>>}

RECURSIVE SumCounts(_)
SumCounts(s) == IF Len(s) = 0 THEN 0 ELSE s[1].count + SumCounts(Tail(s))

\* The groupings of at most MaxGroups groups with keys of their own.
Groupings(keys) ==
    {d \in SeqsUpTo({[key |-> k, count |-> SumCounts(t), errors |-> t] :
                        k \in keys, t \in Tallies}, MaxGroups) :
        \A i, j \in DOMAIN d : i # j => d[i].key # d[j].key}

RenderInit ==
    /\ render_pc = "start"
    /\ failures_by_test \in Groupings(TestKeys)
    /\ failures_by_model \in Groupings(ModelKeys)
    /\ markdown_report = NoneValue

CreateMarkdownReport ==
    /\ render_pc = "start"
    /\ markdown_report' = create_markdown_report(failures_by_test, failures_by_model)
    /\ render_pc' = "done"
    /\ UNCHANGED <<failures_by_test, failures_by_model>>
    /\ UNCHANGED <<norm_vars, ext_vars, agg_vars, job_vars>>

RenderStart ==
    /\ RenderInit
    /\ NormIdle /\ ExtIdle /\ AggIdle /\ JobIdle

RenderNext == CreateMarkdownReport

SpecRender == RenderStart /\ [][RenderNext]_vars

(***************************************************************************)
(* Specification of the job loop body: two nodes, each with a              *)
(* summary_short.txt and possibly a failures_line.txt, of MaxLines lines   *)
(* in all.                                                                 *)
(***************************************************************************)
MaxLines == 4

\* PASSED a::b
LinePassedAB ==
    <<"P", "A", "S", "S", "E", "D", " ", "a", ":", ":", "b">>
\* FAILED c::d - AssertionError
LineFailedCD ==
    <<"F", "A", "I", "L", "E", "D", " ", "c", ":", ":", "d", " ", "-", " ",
      "A", "s", "s", "e", "r", "t", "i", "o", "n", "E", "r", "r", "o", "r">>
\* FAILED a::b - Failed: (subprocess)
LineSubprocessAB ==
    <<"F", "A", "I", "L", "E", "D", " ", "a", ":", ":", "b", " ", "-", " ",
      "F", "a", "i", "l", "e", "d", ":", " ", "(", "s", "u", "b", "p", "r",
      "o", "c", "e", "s", "s", ")">>
\* FAILED 
LineFailedOnly ==
    <<"F", "A", "I", "L", "E", "D", " ">>
\* FAILED c::d  x - y - z 
LineFailedSpaced ==
    <<"F", "A", "I", "L", "E", "D", " ", "c", ":", ":", "d", " ", " ", "x",
      " ", "-", " ", "y", " ", "-", " ", "z", " ">>
\* ERROR c::d
LineOther ==
    <<"E", "R", "R", "O", "R", " ", "c", ":", ":", "d">>
\* x.py:1: boom
DetailGood ==
    <<"x", ".", "p", "y", ":", "1", ":", " ", "b", "o", "o", "m">>
\*  y.py:2: pad 
DetailPadded ==
    <<" ", "y", ".", "p", "y", ":", "2", ":", " ", "p", "a", "d", " ">>
\* === z: w
DetailRule ==
    <<"=", "=", "=", " ", "z", ":", " ", "w">>
\* boom
DetailNoColon ==
    <<"b", "o", "o", "m">>
\* Short test summary: q
DetailBanner ==
    <<"S", "h", "o", "r", "t", " ", "t", "e", "s", "t", " ", "s", "u", "m",
      "m", "a", "r", "y", ":", " ", "q">>

SummaryLines ==
    {LinePassedAB, LineFailedCD, LineSubprocessAB, LineFailedOnly, LineFailedSpaced,
     LineOther}
DetailLines ==
    {DetailGood, DetailPadded, DetailRule, DetailNoColon, DetailBanner}

\* The line counts <<summary 0, summary 1, details 0, details 1>>.
LineCounts ==
    {c \in (0..MaxLines) \X (0..MaxLines) \X (0..MaxLines) \X (0..MaxLines) :
        c[1] + c[2] + c[3] + c[4] <= MaxLines}

\* A failures_line.txt of n lines; a node with no line to give has no such
\* file (NoneValue).
DetailTexts(n) == IF n = 0 THEN {NoneValue} ELSE [1..n -> DetailLines]

\* job_failure_lines: the nodes that have a failures_line.txt, with its lines.
FailureLinesOf(d0, d1) ==
    [n \in {k \in {0, 1} : <<d0, d1>>[k + 1] # NoneValue} |-> <<d0, d1>>[n + 1]]

JobInit ==
    /\ pc = "summary"
    /\ \E c \in LineCounts :
         /\ job_test_summaries \in
                {<<[node |-> 0, text |-> s0], [node |-> 1, text |-> s1]>> :
                    s0 \in [1..c[1] -> SummaryLines], s1 \in [1..c[2] -> SummaryLines]}
         /\ job_failure_lines \in
                {FailureLinesOf(d0, d1) : d0 \in DetailTexts(c[3]), d1 \in DetailTexts(c[4])}
    /\ node_pos = 1
    /\ summary = <<>>
    /\ workflow_summary = <<>>
    /\ failure_entries = <<>>

\* One turn of the loop over job_test_summaries that fills summary; the run
\* ends here when a line raises.
ParseNodeSummary ==
    /\ pc = "summary"
    /\ node_pos <= Len(job_test_summaries)
    /\ LET r == ParseSummaryLines(summary, job_test_summaries[node_pos].text)
       IN /\ summary' = r.summary
          /\ pc' = IF r.ok THEN "summary" ELSE "error"
          /\ node_pos' = IF r.ok THEN node_pos + 1 ELSE node_pos
    /\ UNCHANGED <<job_test_summaries, job_failure_lines, workflow_summary, failure_entries>>
    /\ UNCHANGED <<norm_vars, ext_vars, agg_vars, render_vars>>

\* After the loop: the summary sorted, stored in workflow_summary and written
\* to test_summary.json.
StoreSummary ==
    /\ pc = "summary"
    /\ node_pos > Len(job_test_summaries)
    /\ summary' = SortedSummary(summary)
    /\ workflow_summary' = Append(workflow_summary, [job |-> JobName, summary |-> summary'])
    /\ pc' = "failures"
    /\ node_pos' = 1
    /\ UNCHANGED <<job_test_summaries, job_failure_lines, failure_entries>>
    /\ UNCHANGED <<norm_vars, ext_vars, agg_vars, render_vars>>

\* One turn of the loop over job_test_summaries that collects failure details.
CollectNodeFailures ==
    /\ pc = "failures"
    /\ node_pos <= Len(job_test_summaries)
    /\ failure_entries' = failure_entries \o
            NodeFailureEntries(job_test_summaries[node_pos].node,
                               job_test_summaries[node_pos].text, job_failure_lines)
    /\ node_pos' = node_pos + 1
    /\ pc' = IF node_pos = Len(job_test_summaries) THEN "done" ELSE "failures"
    /\ UNCHANGED <<job_test_summaries, job_failure_lines, summary, workflow_summary>>
    /\ UNCHANGED <<norm_vars, ext_vars, agg_vars, render_vars>>

JobStart ==
    /\ JobInit
    /\ NormIdle /\ ExtIdle /\ AggIdle /\ RenderIdle

JobNext == ParseNodeSummary \/ StoreSummary \/ CollectNodeFailures

Spec == JobStart /\ [][JobNext]_vars

(***************************************************************************)
(* Properties                                                              *)
(***************************************************************************)
\* The input entries whose model_name is present (is not None).
WithModelName == {i \in DOMAIN aggregate_input : aggregate_input[i].model_name # NoneValue}

\* C1: when _aggregate_failures returns, the counts of the by-test groups sum
\* to the number of input entries, and the counts of the by-model groups sum to
\* the number of entries whose model_name is present, an empty str counting as
\* present.
C1_CountsMatchEntries ==
    agg_pc = "done" =>
        /\ SumCounts(by_test) = Len(aggregate_input)
        /\ SumCounts(by_model) = Cardinality(WithModelName)

\* C2: the Name Normalizer is idempotent: normalizing an already normalized
\* name returns it unchanged, for every input string (line breaks included).
C2_NormalizeIdempotent == norm_pc = "twice" => renormalized = normalized

\* The lines of the summary texts of the first n nodes, in processing order.
RECURSIVE SummaryLinesUpTo(_)
SummaryLinesUpTo(n) ==
    IF n = 0 THEN <<>> ELSE SummaryLinesUpTo(n - 1) \o job_test_summaries[n].text

\* The nodes whose summary lines have been parsed, and those whose failure
\* details have been collected.
ParsedNodes == IF pc = "summary" THEN node_pos - 1 ELSE Len(job_test_summaries)
CollectedNodes ==
    IF pc = "failures" THEN node_pos - 1
    ELSE IF pc = "done" THEN Len(job_test_summaries)
    ELSE 0

\* C3: the Summary Parser never fails: whatever the summary and failure-detail
\* texts, the run raises no error, and texts without a line give an empty
\* JobSummary and no FailureEntry.
C3_ParserNeverFails ==
    /\ pc # "error"
    /\ (pc = "done" /\ SummaryLinesUpTo(Len(job_test_summaries)) = <<>>) =>
            summary = <<>> /\ failure_entries = <<>>

\* The node's detail lines that survive the filter, as they stand in the text.
SurvivingDetailLines(node) ==
    IF node \in DOMAIN job_failure_lines
    THEN SelectSeq(job_failure_lines[node], LAMBDA l : KeepsDetailLine(Strip(l)))
    ELSE <<>>

\* The node's summary lines that start with FAILED and hold no subprocess mark.
ReportedFailureLines(text) ==
    SelectSeq(text, LAMBDA l : StartsWith(l, FailedPrefix) /\ ~Contains(l, SubprocessMark))

\* The text after the first " - " of s, empty when s holds none.
AfterFirstDash(s) ==
    IF \E i \in 1..Len(s) : OccursAt(s, DashSeparator, i)
    THEN LET i == CHOOSE x \in 1..Len(s) :
                    /\ OccursAt(s, DashSeparator, x)
                    /\ \A y \in 1..(x - 1) : ~OccursAt(s, DashSeparator, y)
         IN SubSeq(s, i + 3, Len(s))
    ELSE <<>>

\* The errors the claim as stated gives the entries of the n-th node: the k-th
\* surviving detail line as it stands, or the text after the first " - " of the
\* summary line.
ErrorsAsStated(n) ==
    LET D == SurvivingDetailLines(job_test_summaries[n].node)
        F == ReportedFailureLines(job_test_summaries[n].text)
    IN [k \in 1..Len(F) |-> IF k <= Len(D) THEN D[k] ELSE AfterFirstDash(F[k])]

\* The same with the whitespace around a detail line removed, and the short error
\* taken from the stripped text that follows the FAILED prefix.
ErrorsTrimmed(n) ==
    LET D == SurvivingDetailLines(job_test_summaries[n].node)
        F == ReportedFailureLines(job_test_summaries[n].text)
    IN [k \in 1..Len(F) |->
            IF k <= Len(D) THEN Strip(D[k])
            ELSE AfterFirstDash(Strip(SubSeq(F[k], Len(FailedPrefix) + 1, Len(F[k]))))]

RECURSIVE ErrorsAsStatedUpTo(_)
ErrorsAsStatedUpTo(n) ==
    IF n = 0 THEN <<>> ELSE ErrorsAsStatedUpTo(n - 1) \o ErrorsAsStated(n)

RECURSIVE ErrorsTrimmedUpTo(_)
ErrorsTrimmedUpTo(n) ==
    IF n = 0 THEN <<>> ELSE ErrorsTrimmedUpTo(n - 1) \o ErrorsTrimmed(n)

EntryErrors == [i \in DOMAIN failure_entries |-> failure_entries[i].error]

\* What the collection gives for the nodes it has run on: per node, the k-th
\* reported FAILED line gives an entry whose error is the k-th surviving detail
\* line with the whitespace around it removed, or, past the last one, the text
\* after the first " - " of the stripped text that follows the FAILED prefix.
CollectedErrorsTrimmed ==
    pc \in {"failures", "done"} => EntryErrors = ErrorsTrimmedUpTo(CollectedNodes)

\* C4: when the run is over, per node, the k-th reported FAILED line has given
\* a FailureEntry whose error is the k-th surviving detail line, or, past the
\* last one, the text after the first " - " of the summary line; other lines
\* use up no detail line, and a node's detail lines serve that node only.
C4_PositionalCorrelation ==
    pc \in {"done", "error"} =>
        EntryErrors = ErrorsAsStatedUpTo(Len(job_test_summaries))

\* The number of reported failure lines in the first n nodes.
RECURSIVE ReportedUpTo(_)
ReportedUpTo(n) ==
    IF n = 0 THEN 0
    ELSE ReportedUpTo(n - 1) + Len(ReportedFailureLines(job_test_summaries[n].text))

\* The nodes that the collection has run on have given one entry per reported
\* FAILED line.
CollectedEntriesCount == Len(failure_entries) = ReportedUpTo(CollectedNodes)

\* The first whitespace-delimited word of s, as a set: empty when s has none.
FirstWord(s) ==
    LET inked == {i \in 1..Len(s) : s[i] \notin Whitespace}
    IN IF inked = {} THEN {}
       ELSE LET a == CHOOSE i \in inked : \A j \in inked : i <= j
                b == CHOOSE i \in a..Len(s) :
                        /\ \A j \in a..i : s[j] \notin Whitespace
                        /\ i = Len(s) \/ s[i + 1] \in Whitespace
            IN {SubSeq(s, a, b)}

\* The identifier a summary line names: the rest of a PASSED line, the first
\* word after the prefix of a FAILED line.
NamedBy(line) ==
    IF StartsWith(line, PassedPrefix) THEN {SubSeq(line, Len(PassedPrefix) + 1, Len(line))}
    ELSE IF StartsWith(line, FailedPrefix)
         THEN FirstWord(SubSeq(line, Len(FailedPrefix) + 1, Len(line)))
         ELSE {}

\* The identifiers named by the FAILED lines that hold the subprocess mark
\* and by no reported one.
SubprocessOnly ==
    LET lines == SummaryLinesUpTo(Len(job_test_summaries))
        marked == {k \in DOMAIN lines :
                        StartsWith(lines[k], FailedPrefix) /\ Contains(lines[k], SubprocessMark)}
        reported == {k \in DOMAIN lines :
                        StartsWith(lines[k], FailedPrefix) /\ ~Contains(lines[k], SubprocessMark)}
    IN (UNION {NamedBy(lines[k]) : k \in marked}) \ (UNION {NamedBy(lines[k]) : k \in reported})

\* C5: a FAILED line with the subprocess mark gives no FailureEntry, and when
\* the run is over the entries of the nodes are as many as their FAILED lines
\* without the mark.
C5_SubprocessExclusion ==
    pc \in {"done", "error"} =>
        /\ \A i \in DOMAIN failure_entries :
                SplitFirst(failure_entries[i].test_name, <<" ">>) \notin SubprocessOnly
        /\ Len(failure_entries) = ReportedUpTo(Len(job_test_summaries))

\* No failures were reported.
NoFailuresSentence == Take(NoFailuresLine, Len(NoFailuresLine) - 1)

\* C6: the report holds the "No failures were reported." sentence and no table
\* exactly when both groupings are empty; otherwise it holds the "By test"
\* table, then the "By model" table, and not the sentence.
C6_NoFailuresIffBothEmpty ==
    render_pc = "done" =>
        LET both == failures_by_test = <<>> /\ failures_by_model = <<>>
            sentence == Contains(markdown_report, NoFailuresSentence)
            tables == Contains(markdown_report, TableRule)
        IN /\ both => sentence /\ ~tables
           /\ ~both =>
                /\ ~sentence
                /\ Contains(markdown_report, ByTestHeading)
                /\ Find(markdown_report, ByTestHeading) < Find(markdown_report, ByModelHeading)

IdAB == <<"a", ":", ":", "b">>
IdCD == <<"c", ":", ":", "d">>
NoDetailLines == \A n \in DOMAIN job_failure_lines : job_failure_lines[n] = <<>>

\* The scenario: PASSED a::b, then FAILED c::d - AssertionError, no detail text.
ScenarioInput ==
    /\ job_test_summaries[1].text = <<LinePassedAB, LineFailedCD>>
    /\ job_test_summaries[2].text = <<>>
    /\ NoDetailLines

\* C7: the per-job mapping that is emitted lists every failed test before every
\* passed one, each group in ascending order of the identifier; the scenario
\* gives c::d failed, a::b passed, and one FailureEntry with error
\* AssertionError.
C7_JobSummaryOrdering ==
    pc \in {"failures", "done"} =>
        /\ workflow_summary = <<[job |-> JobName, summary |-> summary]>>
        /\ \A i, j \in DOMAIN summary :
                i < j =>
                    /\ summary[i].status = StatusFailed \/ summary[j].status = StatusPassed
                    /\ summary[i].status = summary[j].status =>
                            StrLess(summary[i].test, summary[j].test)
        /\ ScenarioInput =>
                /\ summary = <<[test |-> IdCD, status |-> StatusFailed],
                               [test |-> IdAB, status |-> StatusPassed]>>
                /\ pc = "done" =>
                        /\ Len(failure_entries) = 1
                        /\ failure_entries[1].error =
                                <<"A", "s", "s", "e", "r", "t", "i", "o", "n",
                                  "E", "r", "r", "o", "r">>

C7_Witness ==
    /\ pc = "done"
    /\ ScenarioInput
    /\ Len(summary) = 2
    /\ summary[1].test = IdCD

StatusOfLine(line) == IF StartsWith(line, PassedPrefix) THEN StatusPassed ELSE StatusFailed

\* C8: after the summary lines of any number of nodes, the JobSummary holds each
\* identifier that a PASSED or FAILED line names, once, with the status of the
\* last line that names it.
C8_LastWriteWins ==
    pc \in {"summary", "failures", "done"} =>
        LET lines == SummaryLinesUpTo(ParsedNodes)
            naming(t) == {k \in DOMAIN lines : t \in NamedBy(lines[k])}
        IN /\ {summary[i].test : i \in DOMAIN summary} =
                    UNION {NamedBy(lines[k]) : k \in DOMAIN lines}
           /\ \A i, j \in DOMAIN summary : summary[i].test = summary[j].test => i = j
           /\ \A i \in DOMAIN summary :
                \E k \in naming(summary[i].test) :
                    /\ \A m \in naming(summary[i].test) : m <= k
                    /\ summary[i].status = StatusOfLine(lines[k])

\* a::b passed on node 0 and failed, by a later line, on node 1.
C8_Witness ==
    /\ pc = "done"
    /\ job_test_summaries[1].text = <<LinePassedAB>>
    /\ job_test_summaries[2].text = <<LineSubprocessAB>>
    /\ summary = <<[test |-> IdAB, status |-> StatusFailed]>>

\* The file path of a test identifier: what stands before its first "::".
PathOf(id) ==
    IF \E i \in 1..Len(id) : OccursAt(id, <<":", ":">>, i)
    THEN LET i == CHOOSE x \in 1..Len(id) :
                    /\ OccursAt(id, <<":", ":">>, x)
                    /\ \A y \in 1..(x - 1) : ~OccursAt(id, <<":", ":">>, y)
         IN SubSeq(id, 1, i - 1)
    ELSE id

\* The third segment of a path that starts with tests/models/: what follows the
\* prefix, up to the next "/".
ThirdSegment(path) ==
    LET rest == SubSeq(path, Len(TestsModelsPrefix) + 1, Len(path))
        n == CHOOSE k \in 0..Len(rest) :
                /\ \A j \in 1..k : rest[j] # "/"
                /\ k = Len(rest) \/ rest[k + 1] = "/"
    IN SubSeq(rest, 1, n)

ModelBart == <<"b", "a", "r", "t">>

\* C9: the Model Extractor gives a model name only for a path (the text before
\* the first "::") that starts with tests/models/, and then the third segment
\* of the path; for every other path it gives None.  The bart identifier
\* gives bart, the tests/other one None.
C9_ModelExtraction ==
    ext_pc = "done" =>
        LET path == PathOf(test_node_id)
        IN /\ model_name # NoneValue => StartsWith(path, TestsModelsPrefix)
           /\ StartsWith(path, TestsModelsPrefix) => model_name = ThirdSegment(path)
           /\ ~StartsWith(path, TestsModelsPrefix) => model_name = NoneValue
           /\ test_node_id = IdBart => model_name = ModelBart
           /\ test_node_id = IdOther => model_name = NoneValue

C9_Witness == ext_pc = "done" /\ test_node_id = IdBart /\ model_name = ModelBart

\* A grouping whose tallies add up: each group counts at least one failure, each
\* tallied error at least once, and the tallies of a group sum to its count.
TalliesAddUp(d) ==
    \A i \in DOMAIN d :
        /\ d[i].count >= 1
        /\ \A j \in DOMAIN d[i].errors : d[i].errors[j].count >= 1
        /\ SumCounts(d[i].errors) = d[i].count

\* C10: after any prefix of the entries, and in what is returned, the tallies of
\* every by-test and by-model group add up, and by-model has a group only if
\* by-test has one.
C10_TallyConsistency ==
    /\ TalliesAddUp(by_test)
    /\ TalliesAddUp(by_model)
    /\ by_model # <<>> => by_test # <<>>

\* A returned by-model group of three failures with two distinct errors.
C10_Witness ==
    /\ agg_pc = "done"
    /\ \E i \in DOMAIN by_model : by_model[i].count >= 3 /\ Len(by_model[i].errors) = 2

====
